---- MODULE Spec2Model ----
(***************************************************************************)
(* A model of repo2docker/buildpacks/plain/__init__.py: PlainBuildPack.    *)
(*                                                                         *)
(* Python strings are TLA+ strings; a character is a string of length 1.   *)
(* A multi-line Python string (a script body) is the sequence of its       *)
(* lines, i.e. what str.split("\n") returns.  The rendered Dockerfile is   *)
(* the sequence of its instructions, each instruction the sequence of its  *)
(* lines; blank lines of the template output are not modelled.             *)
(***************************************************************************)
EXTENDS Integers, Sequences, FiniteSets, TLC

VARIABLES
    apt_txt,                        \* the file binder_path("apt.txt")
    apt_pc,                         \* position in get_preassemble_scripts
    f_pos,                          \* next line of the open file f
    extra_apt_packages,             \* the local list of get_preassemble_scripts
    scripts,                        \* the local list get_preassemble_scripts returns
    raised,                         \* exception raised by get_preassemble_scripts / render
    cfg,                            \* what the repository and the BuildPack base class supply to render
    render_pc,                      \* position in render
    build_script_directives,        \* locals of render
    assemble_script_directives,
    preassemble_script_directives,
    document,                       \* the value render returns
    call,                           \* the arguments of build and the file system it reads
    run                             \* per invocation of build: its locals

vars == <<apt_txt, apt_pc, f_pos, extra_apt_packages, scripts, raised, cfg,
          render_pc, build_script_directives, assemble_script_directives,
          preassemble_script_directives, document, call, run>>

aptVars == <<apt_txt, apt_pc, f_pos, extra_apt_packages, scripts>>
renderVars == <<cfg, render_pc, build_script_directives, assemble_script_directives,
                preassemble_script_directives, document>>
buildVars == <<call, run>>

(***************************************************************************)
(* Bounds of the model.                                                    *)
(***************************************************************************)
MaxLines == 3
MaxLineLen == 2
MaxSteps == 2

(***************************************************************************)
(* Python str primitives.                                                  *)
(***************************************************************************)
\* the printable characters 32..95 and 97..126, in code point order
AsciiLow == " !\"#$%&'()*+,-./0123456789:;<=>?@ABCDEFGHIJKLMNOPQRSTUVWXYZ[\\]^_"
AsciiHigh == "abcdefghijklmnopqrstuvwxyz{|}~"

CharAt(s, i) == SubSeq(s, i, i)

\* ord, as a table over the characters above and the newline
Ord ==
    [c \in {"\n"} \cup {CharAt(AsciiLow, i) : i \in 1..Len(AsciiLow)}
                  \cup {CharAt(AsciiHigh, i) : i \in 1..Len(AsciiHigh)} |->
        IF c = "\n" THEN 10
        ELSE IF \E i \in 1..Len(AsciiLow) : CharAt(AsciiLow, i) = c
        THEN 31 + (CHOOSE i \in 1..Len(AsciiLow) : CharAt(AsciiLow, i) = c)
        ELSE 96 + (CHOOSE i \in 1..Len(AsciiHigh) : CharAt(AsciiHigh, i) = c)]

\* ord(c)
Code(c) == Ord[c]

\* chr(n), for 97 <= n <= 126
Chr(n) == CharAt(AsciiHigh, n - 96)

\* s < t for Python str: lexicographic by code point
RECURSIVE StrLess(_, _)
StrLess(s, t) ==
    IF Len(t) = 0 THEN FALSE
    ELSE IF Len(s) = 0 THEN TRUE
    ELSE IF CharAt(s, 1) = CharAt(t, 1)
         THEN StrLess(SubSeq(s, 2, Len(s)), SubSeq(t, 2, Len(t)))
         ELSE Code(CharAt(s, 1)) < Code(CharAt(t, 1))

\* str.isspace for the characters of the model
Whitespace == {" ", "\n"}

RECURSIVE LStrip(_, _)
LStrip(s, chars) ==
    IF Len(s) > 0 /\ CharAt(s, 1) \in chars
    THEN LStrip(SubSeq(s, 2, Len(s)), chars)
    ELSE s

RECURSIVE RStrip(_, _)
RStrip(s, chars) ==
    IF Len(s) > 0 /\ CharAt(s, Len(s)) \in chars
    THEN RStrip(SubSeq(s, 1, Len(s) - 1), chars)
    ELSE s

\* s.strip()
Strip(s) == RStrip(LStrip(s, Whitespace), Whitespace)

\* s.partition(sep)[0] for a one-character sep
PartitionHead(s, sep) ==
    IF \E i \in 1..Len(s) : CharAt(s, i) = sep
    THEN LET i == CHOOSE k \in 1..Len(s) :
                    /\ CharAt(s, k) = sep
                    /\ \A j \in 1..(k - 1) : CharAt(s, j) # sep
         IN  SubSeq(s, 1, i - 1)
    ELSE s

\* sep.join(parts)
RECURSIVE Join(_, _)
Join(parts, sep) ==
    IF Len(parts) = 0 THEN ""
    ELSE IF Len(parts) = 1 THEN parts[1]
    ELSE parts[1] \o sep \o Join(Tail(parts), sep)

\* insertion of x into the sorted list s, after the elements not greater than x
RECURSIVE Insert(_, _)
Insert(x, s) ==
    IF Len(s) = 0 THEN <<x>>
    ELSE IF StrLess(x, s[1]) THEN <<x>> \o s
    ELSE <<s[1]>> \o Insert(x, Tail(s))

\* sorted(list of str)
RECURSIVE Sorted(_)
Sorted(s) ==
    IF Len(s) = 0 THEN <<>>
    ELSE Insert(s[Len(s)], Sorted(SubSeq(s, 1, Len(s) - 1)))

(***************************************************************************)
(* get_preassemble_scripts                                                  *)
(***************************************************************************)
\* the character class [a-z0-9.+-] of the regular expression
InPackageClass(c) ==
    \/ Code(c) >= 97 /\ Code(c) <= 122
    \/ Code(c) >= 48 /\ Code(c) <= 57
    \/ c \in {".", "+", "-"}

\* re.match(r"^[a-z0-9.+-]+", package): some non-empty prefix is in the class
PackageMatch(package) ==
    \E n \in 1..Len(package) : \A k \in 1..n : InPackageClass(CharAt(package, k))

\* l.partition("#")[0].strip()
PackageOfLine(l) == Strip(PartitionHead(l, "#"))

\* the script text, as its lines (the raw string literal split at its newlines)
InstallScript(packages) ==
    << "",
       "                apt-get -qq update && \\",
       "                apt-get install --yes --no-install-recommends " \o packages \o " && \\",
       "                apt-get -qq purge && \\",
       "                apt-get -qq clean && \\",
       "                rm -rf /var/lib/apt/lists/*",
       "                " >>

InstallTuple(packages) ==
    [user |-> "root", script |-> InstallScript(Join(Sorted(packages), " "))]

\* a line as iteration over the file yields it
FileLine(content) == content \o "\n"

\* with open(self.binder_path("apt.txt")) as f
AptOpen ==
    /\ apt_pc = "open"
    /\ IF apt_txt.exists
       THEN apt_pc' = "loop"
       ELSE apt_pc' = "return"          \* except FileNotFoundError: pass
    /\ UNCHANGED <<apt_txt, f_pos, extra_apt_packages, scripts, raised, renderVars, buildVars>>

\* one iteration of "for l in f"
AptLine ==
    /\ apt_pc = "loop"
    /\ f_pos <= Len(apt_txt.lines)
    /\ LET package == PackageOfLine(FileLine(apt_txt.lines[f_pos]))
       IN  IF package = ""
           THEN /\ f_pos' = f_pos + 1
                /\ UNCHANGED <<apt_pc, extra_apt_packages, raised>>
           ELSE IF ~PackageMatch(package)
           THEN /\ raised' = "ValueError"
                /\ apt_pc' = "raised"
                /\ UNCHANGED <<f_pos, extra_apt_packages>>
           ELSE /\ extra_apt_packages' = Append(extra_apt_packages, package)
                /\ f_pos' = f_pos + 1
                /\ UNCHANGED <<apt_pc, raised>>
    /\ UNCHANGED <<apt_txt, scripts, renderVars, buildVars>>

\* scripts.append(("root", ...format(" ".join(sorted(extra_apt_packages)))))
AptAppend ==
    /\ apt_pc = "loop"
    /\ f_pos > Len(apt_txt.lines)
    /\ scripts' = Append(scripts, InstallTuple(extra_apt_packages))
    /\ apt_pc' = "return"
    /\ UNCHANGED <<apt_txt, f_pos, extra_apt_packages, raised, renderVars, buildVars>>

\* return scripts
AptReturn ==
    /\ apt_pc = "return"
    /\ apt_pc' = "done"
    /\ UNCHANGED <<apt_txt, f_pos, extra_apt_packages, scripts, raised, renderVars, buildVars>>

\* the characters apt.txt is written with in the model
Alphabet == {"a", "b", ";", " ", "#"}

RECURSIVE Strings(_)
Strings(n) ==
    IF n = 0 THEN {""}
    ELSE {""} \cup {c \o s : c \in Alphabet, s \in Strings(n - 1)}

RECURSIVE Files(_)
Files(n) ==
    IF n = 0 THEN {<<>>}
    ELSE {<<>>} \cup {<<l>> \o f : l \in Strings(MaxLineLen), f \in Files(n - 1)}

AbsentFile == [exists |-> FALSE, lines |-> <<>>]
File(lines) == [exists |-> TRUE, lines |-> lines]

AptFiles == {AbsentFile} \cup {File(f) : f \in Files(MaxLines)}

\* get_preassemble_scripts as the function of the file it computes
RECURSIVE ReadPackages(_, _, _)
ReadPackages(lines, i, acc) ==
    IF i > Len(lines) THEN [raised |-> "", packages |-> acc]
    ELSE LET package == PackageOfLine(FileLine(lines[i]))
         IN  IF package = "" THEN ReadPackages(lines, i + 1, acc)
             ELSE IF ~PackageMatch(package)
                  THEN [raised |-> "ValueError", packages |-> acc]
                  ELSE ReadPackages(lines, i + 1, Append(acc, package))

GetPreassembleScripts(file) ==
    IF ~file.exists THEN [raised |-> "", scripts |-> <<>>]
    ELSE LET r == ReadPackages(file.lines, 1, <<>>)
         IN  IF r.raised # "" THEN [raised |-> r.raised, scripts |-> <<>>]
             ELSE [raised |-> "", scripts |-> <<InstallTuple(r.packages)>>]

(***************************************************************************)
(* render: the three directive loops                                       *)
(***************************************************************************)
\* script.strip("\n") on the lines of script
RECURSIVE DropLeadingEmpty(_)
DropLeadingEmpty(lines) ==
    IF Len(lines) > 1 /\ lines[1] = "" THEN DropLeadingEmpty(Tail(lines)) ELSE lines

RECURSIVE DropTrailingEmpty(_)
DropTrailingEmpty(lines) ==
    IF Len(lines) > 1 /\ lines[Len(lines)] = ""
    THEN DropTrailingEmpty(SubSeq(lines, 1, Len(lines) - 1))
    ELSE lines

StripNewlines(lines) == DropTrailingEmpty(DropLeadingEmpty(lines))

\* textwrap.dedent, for text indented with spaces
IsBlank(l) == LStrip(l, {" "}) = ""
Indent(l) == Len(l) - Len(LStrip(l, {" "}))

Margin(lines) ==
    LET ind == {Indent(lines[i]) : i \in {j \in 1..Len(lines) : ~IsBlank(lines[j])}}
    IN  IF ind = {} THEN 0 ELSE CHOOSE m \in ind : \A n \in ind : m <= n

Dedent(lines) ==
    LET m == Margin(lines)
    IN  [i \in 1..Len(lines) |->
            IF IsBlank(lines[i]) THEN "" ELSE SubSeq(lines[i], m + 1, Len(lines[i]))]

\* "USER {}".format(user)
UserDirective(user) == <<"USER " \o user>>

\* "RUN {}".format(textwrap.dedent(script.strip("\n")))
RunDirective(script) ==
    LET body == Dedent(StripNewlines(script))
    IN  <<"RUN " \o body[1]>> \o Tail(body)

\* a loop that compares with the initial user instead of the last one
UserChangedFromRoot(last_user, user) == user # "root"

\* if last_user != user
UserChanged(last_user, user) == last_user # user

\* the body of one loop, from its i-th (user, script) on
RECURSIVE DirectivesFrom(_, _)
DirectivesFrom(last_user, steps) ==
    IF Len(steps) = 0 THEN <<>>
    ELSE LET user == steps[1].user
             switch == UserChanged(last_user, user)
         IN  (IF switch THEN <<UserDirective(user)>> ELSE <<>>)
             \o <<RunDirective(steps[1].script)>>
             \o DirectivesFrom(IF switch THEN user ELSE last_user, Tail(steps))

\* one of the three loops of render: last_user = "root", then the loop
ScriptDirectives(steps) == DirectivesFrom("root", steps)

(***************************************************************************)
(* TEMPLATE                                                                *)
(***************************************************************************)
\* str.lower, for dictsort's case-insensitive comparison
RECURSIVE Lower(_)
Lower(s) ==
    IF Len(s) = 0 THEN ""
    ELSE LET c == CharAt(s, 1)
         IN  (IF Code(c) >= 65 /\ Code(c) <= 90
              THEN Chr(Code(c) + 32) ELSE c)
             \o Lower(SubSeq(s, 2, Len(s)))

RECURSIVE SortedKeys(_)
SortedKeys(keys) ==
    IF keys = {} THEN <<>>
    ELSE LET k == CHOOSE x \in keys :
                    \A y \in keys \ {x} : StrLess(Lower(x), Lower(y)) \/ Lower(x) = Lower(y)
         IN  <<k>> \o SortedKeys(keys \ {k})

\* d|dictsort: the (key, value) pairs in key order
DictSort(d) ==
    LET keys == SortedKeys(DOMAIN d)
    IN  [i \in 1..Len(keys) |-> <<keys[i], d[keys[i]]>>]

EmptyDict == <<>>

\* the kwargs which render does not pass are undefined in the template, and false
Undefined == FALSE

\* {% if base_packages %} / {% if packages %}: one RUN over the packages
PackagesBlock(packages, recommends) ==
    IF Len(packages) = 0 THEN <<>>
    ELSE << <<"RUN apt-get -qq update && \\">>
            \o <<"    apt-get -qq install --yes " \o recommends \o "\\">>
            \o [i \in 1..Len(packages) |-> "       " \o packages[i] \o " \\"]
            \o <<"    > /dev/null && \\",
                 "    apt-get -qq purge && \\",
                 "    apt-get -qq clean && \\",
                 "    rm -rf /var/lib/apt/lists/*">> >>

\* {% for item in build_env %} / {% for item in env %}
EnvBlock(items) ==
    [i \in 1..Len(items) |-> <<"ENV " \o items[i][1] \o " " \o items[i][2]>>]

PathBlock(path) ==
    IF Len(path) = 0 THEN <<>>
    ELSE << <<"ENV PATH " \o Join(path, ":") \o ":${PATH}">> >>

BuildFilesBlock(files) ==
    LET items == DictSort(files)
    IN  [i \in 1..Len(items) |-> <<"COPY " \o items[i][1] \o " " \o items[i][2]>>]

PreassembleFilesBlock(files) ==
    LET items == DictSort(files)
    IN  [i \in 1..Len(items) |-> <<"COPY src/" \o items[i][1] \o " ${REPO_DIR}/" \o items[i][2]>>]

ChownInstruction == <<"RUN chown -R ${NB_USER}:${NB_USER} ${REPO_DIR}">>

\* {% if preassemble_script_directives %} USER root / RUN chown ... {% endif %}
FixupCondition(preassemble_files, preassemble_directives) ==
    Len(preassemble_directives) > 0

FixupBlock(preassemble_files, preassemble_directives) ==
    IF FixupCondition(preassemble_files, preassemble_directives)
    THEN <<UserDirective("root"), ChownInstruction>>
    ELSE <<>>

LabelsBlock(labels) ==
    LET items == DictSort(labels)
    IN  [i \in 1..Len(items) |->
            <<"LABEL " \o items[i][1] \o "=\"" \o items[i][2] \o "\"">>]

RECURSIVE PostBuildBlock(_)
PostBuildBlock(post_build_scripts) ==
    IF Len(post_build_scripts) = 0 THEN <<>>
    ELSE << <<"RUN chmod +x " \o post_build_scripts[1]>>,
            <<"RUN ./" \o post_build_scripts[1]>> >>
         \o PostBuildBlock(Tail(post_build_scripts))

None == "None"

StartBlock(start_script) ==
    IF start_script = None THEN <<>>
    ELSE << <<"RUN chmod +x \"" \o start_script \o "\"">>,
            <<"ENV R2D_ENTRYPOINT \"" \o start_script \o "\"">> >>

EntrypointBlock(entrypoint) ==
    IF entrypoint = "" THEN <<>> ELSE << <<"ENTRYPOINT [\" " \o entrypoint \o "\"]">> >>

CmdBlock(cmd) ==
    IF cmd = "" THEN <<>> ELSE << <<"CMD [\"" \o cmd \o "\"]">> >>

FromInstruction == <<"FROM buildpack-deps:bionic">>

\* jinja2.Template(TEMPLATE).render(**c)
Template(c) ==
    <<FromInstruction>>
    \o (IF Undefined THEN << <<"ENV DEBIAN_FRONTEND=noninteractive">> >> ELSE <<>>)
    \o PackagesBlock(IF Undefined THEN <<"base">> ELSE <<>>, "--no-install-recommends ")
    \o PackagesBlock(c.packages, "")
    \o EnvBlock(c.build_env)
    \o PathBlock(c.path)
    \o BuildFilesBlock(c.build_script_files)
    \o c.build_script_directives
    \o (IF Undefined THEN << <<"WORKDIR workdir">> >> ELSE <<>>)
    \o EnvBlock(c.env)
    \o PreassembleFilesBlock(c.preassemble_script_files)
    \o FixupBlock(c.preassemble_script_files, c.preassemble_script_directives)
    \o c.preassemble_script_directives
    \o c.assemble_script_directives
    \o LabelsBlock(c.labels)
    \o PostBuildBlock(c.post_build_scripts)
    \o StartBlock(c.start_script)
    \o EntrypointBlock(c.entrypoint)
    \o CmdBlock(c.cmd)

(***************************************************************************)
(* render                                                                  *)
(***************************************************************************)
\* get_packages: return set()
GetPackages == {}

\* sorted(set of str)
RECURSIVE SortedSet(_)
SortedSet(S) ==
    IF S = {} THEN <<>>
    ELSE LET m == CHOOSE x \in S : \A y \in S \ {x} : StrLess(x, y)
         IN  <<m>> \o SortedSet(S \ {m})

\* get_post_build_scripts, in a repository whose binder_path(p) is p
GetPostBuildScripts(c) == IF c.postBuild THEN <<"postBuild">> ELSE <<>>

\* get_start_script: os.path.join("${REPO_DIR}", start), or None
GetStartScript(c) == IF c.start THEN "${REPO_DIR}/" \o "start" ELSE None

\* the keyword arguments of t.render
Context(c, bsd, psd, asd) ==
    [ packages |-> SortedSet(GetPackages),
      path |-> c.path,
      build_env |-> c.build_env,
      env |-> c.env,
      labels |-> c.labels,
      build_script_directives |-> bsd,
      preassemble_script_files |-> c.preassemble_script_files,
      preassemble_script_directives |-> psd,
      assemble_script_directives |-> asd,
      build_script_files |-> c.build_script_files,
      post_build_scripts |-> GetPostBuildScripts(c),
      start_script |-> GetStartScript(c),
      cmd |-> "my_command",
      entrypoint |-> "my_entrypoint" ]

\* for user, script in self.get_build_scripts(): ...
RenderBuildLoop ==
    /\ render_pc = "build"
    /\ build_script_directives' = ScriptDirectives(cfg.build_scripts)
    /\ render_pc' = "assemble"
    /\ UNCHANGED <<aptVars, raised, cfg, assemble_script_directives,
                   preassemble_script_directives, document, buildVars>>

\* for user, script in self.get_assemble_scripts(): ...
RenderAssembleLoop ==
    /\ render_pc = "assemble"
    /\ assemble_script_directives' = ScriptDirectives(cfg.assemble_scripts)
    /\ render_pc' = "preassemble"
    /\ UNCHANGED <<aptVars, raised, cfg, build_script_directives,
                   preassemble_script_directives, document, buildVars>>

\* for user, script in self.get_preassemble_scripts(): ...
RenderPreassembleLoop ==
    /\ render_pc = "preassemble"
    /\ LET r == GetPreassembleScripts(apt_txt)
       IN  IF r.raised # ""
           THEN /\ raised' = r.raised
                /\ render_pc' = "raised"
                /\ UNCHANGED preassemble_script_directives
           ELSE /\ preassemble_script_directives' = ScriptDirectives(r.scripts)
                /\ render_pc' = "template"
                /\ UNCHANGED raised
    /\ UNCHANGED <<aptVars, cfg, build_script_directives,
                   assemble_script_directives, document, buildVars>>

\* return t.render(...)
RenderTemplate ==
    /\ render_pc = "template"
    /\ document' = Template(Context(cfg, build_script_directives,
                                    preassemble_script_directives,
                                    assemble_script_directives))
    /\ render_pc' = "done"
    /\ UNCHANGED <<aptVars, raised, cfg, build_script_directives,
                   assemble_script_directives, preassemble_script_directives,
                   buildVars>>

\* render as the function of its inputs it computes
Render(c, file) ==
    LET r == GetPreassembleScripts(file)
    IN  IF r.raised # "" THEN [raised |-> r.raised, document |-> <<>>]
        ELSE [raised |-> "",
              document |-> Template(Context(c, ScriptDirectives(c.build_scripts),
                                            ScriptDirectives(r.scripts),
                                            ScriptDirectives(c.assemble_scripts)))]

(***************************************************************************)
(* The inputs of render: what get_build_scripts, get_assemble_scripts,     *)
(* get_path, get_build_env, get_env, get_labels, get_build_script_files    *)
(* and get_preassemble_script_files of the base class return, and which    *)
(* of the files postBuild and start the repository holds.                  *)
(***************************************************************************)
Users == {"root", "jovyan"}
ScriptBodies == { <<"", "    echo hi", "">> }
Steps == [user : Users, script : ScriptBodies]

RECURSIVE StepSeqs(_)
StepSeqs(n) ==
    IF n = 0 THEN {<<>>}
    ELSE {<<>>} \cup {<<st>> \o sq : st \in Steps, sq \in StepSeqs(n - 1)}

EmptyConfig ==
    [ build_scripts |-> <<>>, assemble_scripts |-> <<>>, path |-> <<>>,
      build_env |-> <<>>, env |-> <<>>, labels |-> EmptyDict,
      build_script_files |-> EmptyDict, preassemble_script_files |-> EmptyDict,
      postBuild |-> FALSE, start |-> FALSE ]

SamplePath == <<"/opt/bin", "/opt/sbin">>
SampleBuildEnv == << <<"APP_BASE", "/srv">> >>
SampleEnv == << <<"HOME", "/home/jovyan">> >>
SampleLabels == [maintainer |-> "nobody", Version |-> "1"]
SampleBuildFiles == ("b/setup.sh" :> "/tmp/setup.sh") @@ ("a/init.sh" :> "/tmp/init.sh")
SamplePreassembleFiles == ("environment.yml" :> "environment.yml")

\* the declarations around the scripts: none, one of them, or all
Declarations ==
    LET none == [ path |-> <<>>, build_env |-> <<>>, env |-> <<>>, labels |-> EmptyDict,
                  build_script_files |-> EmptyDict, postBuild |-> FALSE, start |-> FALSE ]
        all == [ path |-> SamplePath, build_env |-> SampleBuildEnv, env |-> SampleEnv,
                 labels |-> SampleLabels, build_script_files |-> SampleBuildFiles,
                 postBuild |-> TRUE, start |-> TRUE ]
    IN  {none, all} \cup {[none EXCEPT ![f] = all[f]] : f \in DOMAIN none}

Configs ==
    { [ build_scripts |-> b, assemble_scripts |-> a, path |-> d.path,
        build_env |-> d.build_env, env |-> d.env, labels |-> d.labels,
        build_script_files |-> d.build_script_files,
        preassemble_script_files |-> p,
        postBuild |-> d.postBuild, start |-> d.start ] :
        b \in StepSeqs(MaxSteps), a \in StepSeqs(MaxSteps), d \in Declarations,
        p \in {EmptyDict, SamplePreassembleFiles} }

RenderAptFiles == {AbsentFile, File(<<>>), File(<<"b", "a">>), File(<<"a", ";">>)}

(***************************************************************************)
(* build                                                                   *)
(***************************************************************************)
\* int(s) for a string of decimal digits
RECURSIVE IntOfDigits(_, _)
IntOfDigits(s, acc) ==
    IF Len(s) = 0 THEN acc
    ELSE IntOfDigits(SubSeq(s, 2, Len(s)), 10 * acc + (Code(CharAt(s, 1)) - 48))

DefaultNbUid == 1000

\* int(build_args.get("NB_UID", 1000))
NbUid(build_args) ==
    IF "NB_UID" \in DOMAIN build_args
    THEN IntOfDigits(build_args["NB_UID"], 0)
    ELSE DefaultNbUid

\* a filter that clears the names and leaves the numeric owner
FilterTarNamesOnly(tarinfo, build_args) ==
    [tarinfo EXCEPT !.uname = "", !.gname = ""]

\* _filter_tar
FilterTar(tarinfo, build_args) ==
    [tarinfo EXCEPT !.uname = "",
                    !.gname = "",
                    !.uid = NbUid(build_args),
                    !.gid = NbUid(build_args)]

FileMode == 420         \* 0o644
DirMode == 493          \* 0o755

\* tarfile.TarInfo("Dockerfile") with its data: the fields a new TarInfo has
DockerfileEntry(dockerfile) ==
    [ name |-> "Dockerfile", type |-> "file", data |-> dockerfile, mode |-> FileMode,
      uid |-> 0, gid |-> 0, uname |-> "", gname |-> "", mtime |-> 0 ]

\* TarFile.gettarinfo: the entry of a file as the host's file system describes it
GetTarInfo(arcname, type, data, host) ==
    [ name |-> arcname, type |-> type, data |-> data,
      mode |-> IF type = "dir" THEN DirMode ELSE FileMode,
      uid |-> host.uid, gid |-> host.gid, uname |-> host.uname, gname |-> host.gname,
      mtime |-> host.mtime ]

\* the text of a file of the package directory, which the manifest names
PackageFileData(src) == << <<"#!/bin/bash">>, <<"# " \o src>> >>

\* tar.add(src_path, src, filter=_filter_tar)
ScriptFileEntry(src, host, build_args) ==
    FilterTar(GetTarInfo(src, "file", PackageFileData(src), host), build_args)

\* the files of the working directory: the ones the buildpack reads, and a README
TreeFiles(c, file) ==
    {"README.md"}
    \cup (IF file.exists THEN {"apt.txt"} ELSE {})
    \cup (IF c.postBuild THEN {"postBuild"} ELSE {})
    \cup (IF c.start THEN {"start"} ELSE {})

TreeFileData(name, file) ==
    IF name = "apt.txt" THEN <<file.lines>> ELSE << <<"# " \o name>> >>

\* tar.add(".", "src/", filter=_filter_tar): the directory, then its sorted listing
SourceEntries(c, file, host, build_args) ==
    LET names == SortedSet(TreeFiles(c, file))
    IN  <<FilterTar(GetTarInfo("src/", "dir", <<>>, host), build_args)>>
        \o [i \in 1..Len(names) |->
                FilterTar(GetTarInfo("src/" \o names[i], "file",
                                     TreeFileData(names[i], file), host), build_args)]

\* isinstance(memory_limit, int)
IsInt(v) == v.type = "int"

\* limits that cap the memory and leave the swap to the engine
LimitsMemoryOnly(memory_limit) ==
    IF memory_limit.value # 0
    THEN [memory |-> memory_limit.value, memswap |-> -1]
    ELSE EmptyDict

\* limits = {}; if memory_limit: limits = {"memory": ..., "memswap": ...}
Limits(memory_limit) ==
    IF memory_limit.value # 0
    THEN [memory |-> memory_limit.value, memswap |-> memory_limit.value]
    ELSE EmptyDict

\* d.update(e)
Update(d, e) ==
    [k \in DOMAIN d \cup DOMAIN e |-> IF k \in DOMAIN e THEN e[k] ELSE d[k]]

\* build_kwargs = dict(...); build_kwargs.update(extra_build_kwargs)
BuildKwargs(tarf, limits) ==
    Update([ fileobj |-> tarf,
             tag |-> call.image_spec,
             custom_context |-> TRUE,
             buildargs |-> call.build_args,
             decode |-> TRUE,
             forcerm |-> TRUE,
             rm |-> TRUE,
             container_limits |-> limits,
             cache_from |-> call.cache_from ],
           call.extra_build_kwargs)

\* the locals of one invocation of build, before its first statement
NewRun(host) ==
    [ pc |-> "render", host |-> host, dockerfile |-> <<>>, rendered |-> FALSE,
      tar |-> <<>>, i |-> 1, closed |-> FALSE, limits |-> EmptyDict,
      build_kwargs |-> EmptyDict, client_build |-> <<>>, yielded |-> <<>>,
      raised |-> "" ]

\* dockerfile = self.render().encode("utf-8")
BuildRender(r) ==
    /\ run[r].pc = "render"
    /\ LET d == Render(cfg, apt_txt)
       IN  IF d.raised # ""
           THEN run' = [run EXCEPT ![r].pc = "raised", ![r].raised = d.raised]
           ELSE run' = [run EXCEPT ![r].pc = "dockerfile", ![r].rendered = TRUE,
                                   ![r].dockerfile = d.document]
    /\ UNCHANGED <<aptVars, raised, renderVars, call>>

\* tar.addfile(dockerfile_tarinfo, io.BytesIO(dockerfile))
BuildAddDockerfile(r) ==
    /\ run[r].pc = "dockerfile"
    /\ run' = [run EXCEPT ![r].pc = "files",
                          ![r].tar = Append(@, DockerfileEntry(run[r].dockerfile))]
    /\ UNCHANGED <<aptVars, raised, renderVars, call>>

\* one iteration of "for src in sorted(self.get_build_script_files())"
BuildAddScriptFile(r) ==
    /\ run[r].pc = "files"
    /\ LET srcs == SortedSet(DOMAIN cfg.build_script_files)
       IN  /\ run[r].i <= Len(srcs)
           /\ run' = [run EXCEPT
                        ![r].tar = Append(@, ScriptFileEntry(srcs[run[r].i], run[r].host,
                                                             call.build_args)),
                        ![r].i = @ + 1]
    /\ UNCHANGED <<aptVars, raised, renderVars, call>>

\* tar.add(".", "src/", filter=_filter_tar); tar.close(); tarf.seek(0)
BuildAddSource(r) ==
    /\ run[r].pc = "files"
    /\ run[r].i > Cardinality(DOMAIN cfg.build_script_files)
    /\ run' = [run EXCEPT
                 ![r].tar = @ \o SourceEntries(cfg, apt_txt, run[r].host, call.build_args),
                 ![r].closed = TRUE,
                 ![r].pc = "limit"]
    /\ UNCHANGED <<aptVars, raised, renderVars, call>>

\* if not isinstance(memory_limit, int): raise ValueError; limits = ...
BuildLimits(r) ==
    /\ run[r].pc = "limit"
    /\ IF ~IsInt(call.memory_limit)
       THEN run' = [run EXCEPT ![r].pc = "raised", ![r].raised = "ValueError"]
       ELSE run' = [run EXCEPT ![r].pc = "kwargs",
                               ![r].limits = Limits(call.memory_limit)]
    /\ UNCHANGED <<aptVars, raised, renderVars, call>>

\* build_kwargs = dict(...); build_kwargs.update(extra_build_kwargs)
BuildMakeKwargs(r) ==
    /\ run[r].pc = "kwargs"
    /\ run' = [run EXCEPT ![r].pc = "client",
                          ![r].build_kwargs = BuildKwargs(run[r].tar, run[r].limits)]
    /\ UNCHANGED <<aptVars, raised, renderVars, call>>

\* client.build(**build_kwargs)
BuildClient(r) ==
    /\ run[r].pc = "client"
    /\ run' = [run EXCEPT ![r].pc = "stream",
                          ![r].client_build = Append(@, run[r].build_kwargs)]
    /\ UNCHANGED <<aptVars, raised, renderVars, call>>

\* for line in client.build(...): yield line
BuildYield(r) ==
    /\ run[r].pc = "stream"
    /\ Len(run[r].yielded) < Len(call.events)
    /\ run' = [run EXCEPT ![r].yielded = Append(@, call.events[Len(@) + 1])]
    /\ UNCHANGED <<aptVars, raised, renderVars, call>>

\* the engine's stream is exhausted: the generator returns
BuildReturn(r) ==
    /\ run[r].pc = "stream"
    /\ Len(run[r].yielded) = Len(call.events)
    /\ run' = [run EXCEPT ![r].pc = "done"]
    /\ UNCHANGED <<aptVars, raised, renderVars, call>>

(***************************************************************************)
(* The inputs of build.                                                    *)
(***************************************************************************)
IntValue(n) == [type |-> "int", value |-> n]
MemoryLimits == {IntValue(0), IntValue(512), [type |-> "str", value |-> 512],
                 [type |-> "NoneType", value |-> 0]}

BuildArgs == { EmptyDict,
               [NB_UID |-> "1001"],
               [NB_UID |-> "1001", NB_GID |-> "100"],
               [NB_USER |-> "jovyan"] }

ExtraBuildKwargs == { EmptyDict,
                      [nocache |-> TRUE],
                      [container_limits |-> [memory |-> 1024, memswap |-> 2048]] }

EventStreams == { <<>>, <<"Step 1/2", "Successfully built">> }

Calls ==
    [ memory_limit : MemoryLimits, build_args : BuildArgs,
      extra_build_kwargs : ExtraBuildKwargs, image_spec : {"r2d-image"},
      cache_from : {<<>>}, events : EventStreams ]

\* the ownership, names and clock of the machine the files are on
Hosts == { [uid |-> 501, gid |-> 20, uname |-> "alice", gname |-> "staff", mtime |-> 1],
           [uid |-> 1000, gid |-> 1000, uname |-> "runner", gname |-> "docker", mtime |-> 2] }

(***************************************************************************)
(* Specifications                                                          *)
(***************************************************************************)
NoCall ==
    [ memory_limit |-> IntValue(0), build_args |-> EmptyDict, extra_build_kwargs |-> EmptyDict,
      image_spec |-> "", cache_from |-> <<>>, events |-> <<>> ]

\* get_preassemble_scripts alone, over every apt.txt of the bounds
InitApt ==
    /\ apt_txt \in AptFiles
    /\ apt_pc = "open"
    /\ f_pos = 1
    /\ extra_apt_packages = <<>>
    /\ scripts = <<>>
    /\ raised = ""
    /\ cfg = EmptyConfig
    /\ render_pc = "idle"
    /\ build_script_directives = <<>>
    /\ assemble_script_directives = <<>>
    /\ preassemble_script_directives = <<>>
    /\ document = <<>>
    /\ call = NoCall
    /\ run = <<>>

NextApt ==
    \/ AptOpen
    \/ AptLine
    \/ AptAppend
    \/ AptReturn

SpecApt == InitApt /\ [][NextApt]_vars

\* render alone
InitRender ==
    /\ apt_txt \in RenderAptFiles
    /\ apt_pc = "idle"
    /\ f_pos = 1
    /\ extra_apt_packages = <<>>
    /\ scripts = <<>>
    /\ raised = ""
    /\ cfg \in Configs
    /\ render_pc = "build"
    /\ build_script_directives = <<>>
    /\ assemble_script_directives = <<>>
    /\ preassemble_script_directives = <<>>
    /\ document = <<>>
    /\ call = NoCall
    /\ run = <<>>

NextRender ==
    \/ RenderBuildLoop
    \/ RenderAssembleLoop
    \/ RenderPreassembleLoop
    \/ RenderTemplate

SpecRender == InitRender /\ [][NextRender]_vars

\* the configurations build is run on
BuildConfigs ==
    { c \in Configs :
        /\ Len(c.build_scripts) + Len(c.assemble_scripts) <= 1
        /\ c.preassemble_script_files = EmptyDict
        /\ \/ c.path = <<>> /\ ~c.postBuild /\ ~c.start
           \/ c.path # <<>> /\ c.build_script_files # EmptyDict }

BuildAptFiles == {AbsentFile, File(<<"b", "a">>), File(<<";">>)}

BuildStep(r) ==
    \/ BuildRender(r)
    \/ BuildAddDockerfile(r)
    \/ BuildAddScriptFile(r)
    \/ BuildAddSource(r)
    \/ BuildLimits(r)
    \/ BuildMakeKwargs(r)
    \/ BuildClient(r)
    \/ BuildYield(r)
    \/ BuildReturn(r)

\* one invocation of build
InitBuild ==
    /\ apt_txt \in BuildAptFiles
    /\ apt_pc = "idle"
    /\ f_pos = 1
    /\ extra_apt_packages = <<>>
    /\ scripts = <<>>
    /\ raised = ""
    /\ cfg \in BuildConfigs
    /\ render_pc = "idle"
    /\ build_script_directives = <<>>
    /\ assemble_script_directives = <<>>
    /\ preassemble_script_directives = <<>>
    /\ document = <<>>
    /\ call \in Calls
    /\ \E h \in Hosts : run = [r \in {1} |-> NewRun(h)]

NextBuild == \E r \in {1} : BuildStep(r)

SpecBuild == InitBuild /\ [][NextBuild]_vars

\* two invocations of build on the same inputs, on hosts that may differ:
\* the part of build that writes the archive
InitPair ==
    /\ apt_txt \in BuildAptFiles
    /\ apt_pc = "idle"
    /\ f_pos = 1
    /\ extra_apt_packages = <<>>
    /\ scripts = <<>>
    /\ raised = ""
    /\ cfg \in BuildConfigs
    /\ render_pc = "idle"
    /\ build_script_directives = <<>>
    /\ assemble_script_directives = <<>>
    /\ preassemble_script_directives = <<>>
    /\ document = <<>>
    /\ call \in {c \in Calls : /\ c.memory_limit = IntValue(0)
                               /\ c.extra_build_kwargs = EmptyDict
                               /\ c.events = <<>>}
    /\ \E h1 \in Hosts, h2 \in Hosts : run = [r \in {1, 2} |-> NewRun(IF r = 1 THEN h1 ELSE h2)]

NextPair ==
    \E r \in {1, 2} :
        \/ BuildRender(r)
        \/ BuildAddDockerfile(r)
        \/ BuildAddScriptFile(r)
        \/ BuildAddSource(r)

SpecPair == InitPair /\ [][NextPair]_vars

(***************************************************************************)
(* Properties                                                              *)
(***************************************************************************)
AllInClass(s) == \A k \in 1..Len(s) : InPackageClass(CharAt(s, k))

\* the packages of the lines of a file that are not blank or comment
RECURSIVE LinePackages(_)
LinePackages(lines) ==
    IF Len(lines) = 0 THEN <<>>
    ELSE LET p == PackageOfLine(FileLine(lines[1]))
         IN  (IF p = "" THEN <<>> ELSE <<p>>) \o LinePackages(Tail(lines))

Range(f) == {f[i] : i \in DOMAIN f}

\* C1: every package name that passes validation consists only of characters
\* of [a-z0-9.+-], and a file with a line whose package has a character
\* outside that class is rejected: get_preassemble_scripts does not return.
C1_OnlyClassCharactersReachCommand ==
    /\ \A i \in 1..Len(extra_apt_packages) : AllInClass(extra_apt_packages[i])
    /\ (apt_pc = "done" /\ apt_txt.exists) =>
          \A p \in Range(LinePackages(apt_txt.lines)) : AllInClass(p)

\* s.split(sep), without the empty strings
RECURSIVE Words(_, _)
Words(s, cur) ==
    IF Len(s) = 0 THEN (IF cur = "" THEN <<>> ELSE <<cur>>)
    ELSE IF CharAt(s, 1) = " "
         THEN (IF cur = "" THEN <<>> ELSE <<cur>>) \o Words(SubSeq(s, 2, Len(s)), "")
         ELSE Words(SubSeq(s, 2, Len(s)), cur \o CharAt(s, 1))

InstallPrefix == "                apt-get install --yes --no-install-recommends "
InstallSuffix == " && \\"

\* the package arguments of the install command of a script
InstalledPackages(script) ==
    Words(SubSeq(script[3], Len(InstallPrefix) + 1, Len(script[3]) - Len(InstallSuffix)), "")

\* C5: for a valid apt.txt, the install instruction names each distinct
\* package exactly once, in lexicographically sorted order.
C5_EachPackageOnceSorted ==
    (/\ apt_pc = "done"
     /\ apt_txt.exists
     /\ \A p \in Range(LinePackages(apt_txt.lines)) : AllInClass(p))
    => /\ Len(scripts) = 1
       /\ InstalledPackages(scripts[1].script)
            = SortedSet(Range(LinePackages(apt_txt.lines)))

IsUser(ins) == Len(ins) = 1 /\ Len(ins[1]) >= 5 /\ SubSeq(ins[1], 1, 5) = "USER "
IsRun(ins) == Len(ins[1]) >= 4 /\ SubSeq(ins[1], 1, 4) = "RUN "
UserOf(ins) == SubSeq(ins[1], 6, Len(ins[1]))

UserCount(d) == Cardinality({i \in 1..Len(d) : IsUser(d[i])})
RunCount(d) == Cardinality({i \in 1..Len(d) : IsRun(d[i])})

\* no USER directive repeats the USER directive before it
NoRepeatedUser(d) ==
    \A i \in 1..Len(d), j \in 1..Len(d) :
        (/\ i < j /\ IsUser(d[i]) /\ IsUser(d[j])
         /\ \A k \in (i + 1)..(j - 1) : ~IsUser(d[k]))
        => d[i] # d[j]

SameUser(steps) == \A i \in 1..Len(steps), j \in 1..Len(steps) : steps[i].user = steps[j].user

\* the loops of render that have run, as (steps, directives)
LoopsRun ==
    (IF render_pc \in {"assemble", "preassemble", "template", "done", "raised"}
     THEN {<<cfg.build_scripts, build_script_directives>>} ELSE {})
    \cup (IF render_pc \in {"preassemble", "template", "done", "raised"}
          THEN {<<cfg.assemble_scripts, assemble_script_directives>>} ELSE {})
    \cup (IF render_pc \in {"template", "done"}
          THEN {<<GetPreassembleScripts(apt_txt).scripts, preassemble_script_directives>>}
          ELSE {})

\* C4 as stated: no two consecutive identical USER directives, and N >= 1
\* steps of one user give exactly one USER directive and N RUN directives.
C4_ExactlyOneUserDirective ==
    \A l \in LoopsRun :
        /\ NoRepeatedUser(l[2])
        /\ (Len(l[1]) >= 1 /\ SameUser(l[1])) =>
              UserCount(l[2]) = 1 /\ RunCount(l[2]) = Len(l[1])

\* C4 amended: no two consecutive identical USER directives; N steps of one
\* user give N RUN directives and one USER directive when that user is not
\* root and N >= 1, and no USER directive when the user is root or N = 0.
C4_OneUserDirectiveUnlessRoot ==
    \A l \in LoopsRun :
        /\ NoRepeatedUser(l[2])
        /\ SameUser(l[1]) =>
              /\ RunCount(l[2]) = Len(l[1])
              /\ UserCount(l[2]) =
                    (IF Len(l[1]) >= 1 /\ l[1][1].user # "root" THEN 1 ELSE 0)

C4_Witness ==
    /\ render_pc = "done"
    /\ Len(cfg.build_scripts) = 2
    /\ cfg.build_scripts[1].user = "jovyan"
    /\ cfg.build_scripts[2].user = "jovyan"
    /\ build_script_directives = <<<<"USER jovyan">>, <<"RUN echo hi">>, <<"RUN echo hi">>>>
    /\ Len(cfg.assemble_scripts) = 2
    /\ cfg.assemble_scripts[1].user = "root"
    /\ cfg.assemble_scripts[2].user = "root"
    /\ UserCount(assemble_script_directives) = 0

\* the ownership fix-ups of a document: USER root followed by the chown
FixupCount(doc) ==
    Cardinality({i \in 1..(Len(doc) - 1) :
                    doc[i] = <<"USER root">> /\ doc[i + 1] = ChownInstruction})

\* C6: the document holds exactly one ownership fix-up when the pre-assembly
\* file manifest is non-empty and none when it is empty.
C6_FixupIffManifest ==
    render_pc = "done" =>
        FixupCount(document) =
            (IF cfg.preassemble_script_files # EmptyDict THEN 1 ELSE 0)

\* C9: for the empty configuration the document is the base-image directive alone.
C9_EmptyConfigOnlyFrom ==
    (render_pc = "done" /\ cfg = EmptyConfig /\ ~apt_txt.exists)
    => document = <<FromInstruction>>

\* the user of the last USER instruction before instruction n, root when none
EffectiveUser(doc, n) ==
    LET us == {i \in 1..(n - 1) : IsUser(doc[i])}
    IN  IF us = {} THEN "root"
        ELSE UserOf(doc[CHOOSE i \in us : \A j \in us : j <= i])

\* the index in d of its k-th RUN directive
RunIndex(d, k) ==
    CHOOSE i \in 1..Len(d) :
        IsRun(d[i]) /\ Cardinality({j \in 1..i : IsRun(d[j])}) = k

\* where the three directive lists start in the document
BuildOffset ==
    1 + Len(EnvBlock(cfg.build_env)) + Len(PathBlock(cfg.path))
      + Len(BuildFilesBlock(cfg.build_script_files))
PreassembleOffset ==
    BuildOffset + Len(build_script_directives) + Len(EnvBlock(cfg.env))
      + Len(PreassembleFilesBlock(cfg.preassemble_script_files))
      + Len(FixupBlock(cfg.preassemble_script_files, preassemble_script_directives))
AssembleOffset == PreassembleOffset + Len(preassemble_script_directives)

StepsRunAsDeclared(steps, d, offset) ==
    /\ SubSeq(document, offset + 1, offset + Len(d)) = d
    /\ \A k \in 1..Len(steps) :
          EffectiveUser(document, offset + RunIndex(d, k)) = steps[k].user

\* C10: in the document, every script step of every phase runs under its
\* declared user: the user of the last USER directive before its RUN.
C10_StepsRunAsDeclaredUser ==
    render_pc = "done" =>
        /\ StepsRunAsDeclared(cfg.build_scripts, build_script_directives, BuildOffset)
        /\ StepsRunAsDeclared(GetPreassembleScripts(apt_txt).scripts,
                              preassemble_script_directives, PreassembleOffset)
        /\ StepsRunAsDeclared(cfg.assemble_scripts, assemble_script_directives,
                              AssembleOffset)

\* C2: two runs of the archiver on the same document, manifest and source
\* tree, on hosts that differ in user, group or file timestamps, write the
\* same entries in the same order.
C2_ArchivesIdentical ==
    (run[1].closed /\ run[2].closed) => run[1].tar = run[2].tar

\* the uid the build args configure, for the build args of the model
ConfiguredUid ==
    IF "NB_UID" \in DOMAIN call.build_args
    THEN (IF call.build_args["NB_UID"] = "1001" THEN 1001 ELSE -1)
    ELSE 1000

\* C3 as stated: every entry of the archive, the Dockerfile entry included,
\* has the configured uid and gid (NB_UID, 1000 when not given) and empty
\* owner and group names.
C3_EveryEntryHasConfiguredOwner ==
    \A r \in DOMAIN run : \A i \in 1..Len(run[r].tar) :
        LET e == run[r].tar[i]
        IN  /\ e.uid = ConfiguredUid
            /\ e.gid = ConfiguredUid
            /\ e.uname = "" /\ e.gname = ""

\* C3 amended: every manifest file entry and every entry of the source tree
\* has uid and gid both set to the NB_UID build arg (1000 when not given)
\* and empty owner and group names; the Dockerfile entry has uid 0, gid 0
\* and empty owner and group names.
C3_FileEntriesHaveConfiguredOwner ==
    \A r \in DOMAIN run : \A i \in 1..Len(run[r].tar) :
        LET e == run[r].tar[i]
        IN  /\ e.uname = "" /\ e.gname = ""
            /\ IF e.name = "Dockerfile"
               THEN e.uid = 0 /\ e.gid = 0
               ELSE e.uid = ConfiguredUid /\ e.gid = ConfiguredUid

C3_Witness ==
    /\ run[1].closed
    /\ call.build_args = [NB_UID |-> "1001", NB_GID |-> "100"]
    /\ run[1].host.uname = "alice"
    /\ Len(run[1].tar) >= 4
    /\ run[1].tar[1].name = "Dockerfile" /\ run[1].tar[1].uid = 0
    /\ run[1].tar[2].name = "a/init.sh" /\ run[1].tar[2].uid = 1001
    /\ run[1].tar[2].gid = 1001 /\ run[1].tar[2].uname = ""
    /\ \E i \in 1..Len(run[1].tar) :
          run[1].tar[i].name = "src/README.md" /\ run[1].tar[i].gid = 1001

\* the memory limit is an integer and is set
LimitSet == IsInt(call.memory_limit) /\ call.memory_limit.value # 0

DerivedLimits ==
    [memory |-> call.memory_limit.value, memswap |-> call.memory_limit.value]

\* C7 as stated: whenever an integer memory limit is set, the engine is
\* invoked with memory = memswap = memory_limit, for any extra build options.
C7_EngineGetsEqualLimits ==
    \A r \in DOMAIN run : \A i \in 1..Len(run[r].client_build) :
        LimitSet => run[r].client_build[i].container_limits = DerivedLimits

\* C7 amended: whenever an integer memory limit is set and the extra build
\* options hold no container_limits, the engine is invoked with memory =
\* memswap = memory_limit; a container_limits among the extra options
\* replaces the derived limits, the extra options being merged last.
C7_EngineGetsEqualLimitsUnlessOverridden ==
    \A r \in DOMAIN run : \A i \in 1..Len(run[r].client_build) :
        LimitSet =>
            run[r].client_build[i].container_limits =
                (IF "container_limits" \in DOMAIN call.extra_build_kwargs
                 THEN call.extra_build_kwargs["container_limits"]
                 ELSE DerivedLimits)

C7_Witness ==
    /\ run[1].pc = "done"
    /\ call.memory_limit = IntValue(512)
    /\ call.extra_build_kwargs = [nocache |-> TRUE]
    /\ Len(run[1].client_build) = 1
    /\ run[1].client_build[1].container_limits = [memory |-> 512, memswap |-> 512]
    /\ run[1].client_build[1].nocache

\* C8: when the memory limit is not an integer, build raises before any
\* archive is built: nothing was rendered, no entry was written and the
\* engine was not called.
C8_LimitCheckedBeforeArchive ==
    \A r \in DOMAIN run :
        (~IsInt(call.memory_limit) /\ run[r].raised # "") =>
            /\ ~run[r].rendered
            /\ run[r].tar = <<>>
            /\ run[r].client_build = <<>>

====
